---------------------------- MODULE Spec2Model ----------------------------
(***************************************************************************)
(* A model of cuecheck.py: the diagnostics collector (cueSynerrList), the  *)
(* line classifier / tree builder and the validation passes of cuecheck(). *)
(*                                                                         *)
(* A line of text is a sequence of items: the space character SP, another  *)
(* whitespace character TAB, the byte-order mark BOM, or a word (a maximal *)
(* run of non-whitespace characters, kept as one string).                  *)
(***************************************************************************)
EXTENDS Integers, Sequences, FiniteSets, TLC

VARIABLES
  entry,      \* which entry point of the module is exercised: "add" | "cuecheck"
  errlist,    \* collector used directly: cueSynerrList.errlist
  calls,      \* history of the add calls made on errlist: <<line_num, message>>
  filename,   \* argument of cuecheck
  f,          \* the file on disk: [exists, decodable, lines]
  media,      \* the media files that exist beside the cue file
  pc,         \* position in cuecheck
  d,          \* list of lines read from the file
  i,          \* number of lines the tree-building loop has consumed
  cmds,       \* the CMD objects, keyed by linenum (0 is the root)
  current,    \* open-ancestor pointers (current[1] is Python's current[0])
  errorlist,  \* cuecheck's error set   (cueSynerrList.errlist)
  warnlist,   \* cuecheck's warning set (cueSynerrList.errlist)
  raised      \* the exception that ended the run, or NoException

vars == <<entry, errlist, calls, filename, f, media, pc, d, i, cmds, current,
          errorlist, warnlist, raised>>

\* what the program is given and never changes
inputs == <<entry, filename, f, media>>

---------------------------------------------------------------------------
(* Bounds of the model *)

MaxLines == 4      \* longest document
MaxAdds == 4       \* longest sequence of direct add calls
MaxLineNum == 3    \* line numbers used by direct add calls
MaxBOMLines == 1   \* longest document tried with a byte-order mark
MaxSiblingLines == 4   \* longest document over SiblingLines
MaxTailLines == 3      \* most lines of SequenceLines after a document head

---------------------------------------------------------------------------
(* Text *)

SP == " "
TAB == "\t"
BOM == "BOM"
None == "None"     \* the key of the root
Null == -1         \* a reference that is None

IsSpace(c) == c \in {SP, TAB}

\* str.upper() on the words of the model
upper(w) ==
  CASE w = "file" -> "FILE"
    [] w = "track" -> "TRACK"
    [] w = "title" -> "TITLE"
    [] w = "Index" -> "INDEX"
    [] w = "foo" -> "FOO"
    [] OTHER -> w

\* str.isupper(): at least one cased character and no lower-case one
isupper(w) ==
  w \in {"CATALOG", "CDTEXTFILE", "TITLE", "PERFORMER", "SONGWRITER", "FILE",
         "TRACK", "FLAGS", "ISRC", "PREGAP", "INDEX", "POSTGAP", "REM",
         "FOO", "AUDIO", "BINARY", "DATE", "BOMFILE"}

\* the words of a line: re.sub(r'\s+', ' ', line).strip().split().  A BOM
\* is not whitespace: it is part of the word that follows it.
RECURSIVE split(_)
split(line) ==
  IF line = <<>> THEN <<>>
  ELSE IF IsSpace(Head(line)) THEN split(Tail(line))
  ELSE IF Head(line) = BOM /\ Len(line) > 1 /\ ~IsSpace(line[2])
       THEN LET rest == split(Tail(line))
            IN <<BOM \o Head(rest)>> \o Tail(rest)
  ELSE <<Head(line)>> \o split(Tail(line))

isblankRaw(line) == line = <<>>

\* re.sub(r'\s+', ' ', line).strip() == ''
isblank(line) == split(line) = <<>>

RECURSIVE getSpace(_)
getSpace(line) ==
  IF line = <<>> \/ Head(line) # SP THEN 0
  ELSE 1 + getSpace(Tail(line))

---------------------------------------------------------------------------
(* Grammar registry: `commands` *)

Keys == {"CATALOG", "CDTEXTFILE", "TITLE", "PERFORMER", "SONGWRITER", "FILE",
         "TRACK", "FLAGS", "ISRC", "PREGAP", "INDEX", "POSTGAP", "REM"}

\* commands[key]['indent']
indentOf(key) ==
  CASE key \in {"TITLE", "PERFORMER", "SONGWRITER"} -> <<0, 4>>
    [] key = "TRACK" -> <<2>>
    [] key \in {"FLAGS", "ISRC", "PREGAP", "INDEX", "POSTGAP"} -> <<4>>
    [] OTHER -> <<0>>

Range(s) == {s[k] : k \in DOMAIN s}

\* commands[key]['multiple']
multiple(key) == key \in {"FILE", "TRACK", "INDEX", "REM"}

\* commands[key]['children'] (the entry None is left out: no node has key None
\* but the root, and the root is never a child)
childrenOf(key) ==
  CASE key = "FILE" -> {"TRACK"}
    [] key = "TRACK" -> {"FLAGS", "ISRC", "TITLE", "PERFORMER", "SONGWRITER",
                         "PREGAP", "INDEX", "POSTGAP"}
    [] OTHER -> {}

\* commands[key]['parents']
parentsOf(key) ==
  CASE key \in {"TITLE", "PERFORMER", "SONGWRITER"} -> {None, "TRACK"}
    [] key = "TRACK" -> {"FILE"}
    [] key \in {"FLAGS", "ISRC", "PREGAP", "INDEX", "POSTGAP"} -> {"TRACK"}
    [] OTHER -> {None}

\* commands[key]['position'][parentkey]: defined for parentkey in parentsOf(key)
position(key, parentkey) ==
  CASE key = "CATALOG" ->
         [after |-> {}, before |-> {"CDTEXTFILE", "TITLE", "PERFORMER", "SONGWRITER", "FILE"}]
    [] key = "CDTEXTFILE" ->
         [after |-> {"CATALOG"}, before |-> {"TITLE", "PERFORMER", "SONGWRITER", "FILE"}]
    [] key \in {"TITLE", "PERFORMER", "SONGWRITER"} /\ parentkey = None ->
         [after |-> {"CATALOG", "CDTEXTFILE"}, before |-> {"FILE"}]
    [] key \in {"TITLE", "PERFORMER", "SONGWRITER"} /\ parentkey = "TRACK" ->
         [after |-> {}, before |-> {"INDEX"}]
    [] key = "FILE" -> [after |-> {"CATALOG", "CDTEXTFILE"}, before |-> {}]
    [] key = "TRACK" -> [after |-> {}, before |-> {}]
    [] key \in {"FLAGS", "ISRC", "PREGAP"} -> [after |-> {}, before |-> {"INDEX"}]
    [] key = "INDEX" ->
         [after |-> {"FLAGS", "ISRC", "TITLE", "PERFORMER", "SONGWRITER", "PREGAP"},
          before |-> {"POSTGAP"}]
    [] key = "POSTGAP" -> [after |-> {"INDEX"}, before |-> {}]
    [] key = "REM" -> [after |-> {}, before |-> {}]

---------------------------------------------------------------------------
(* Diagnostics collector *)

cueSyntaxError(line_num, line, message) ==
  [line_num |-> line_num, line |-> line, message |-> <<message>>]

\* list.sort() with cueSyntaxError.__lt__: a stable insertion sort
RECURSIVE insertSorted(_, _)
insertSorted(s, e) ==
  IF s = <<>> THEN <<e>>
  ELSE IF e.line_num < Head(s).line_num THEN <<e>> \o s
  ELSE <<Head(s)>> \o insertSorted(Tail(s), e)

RECURSIVE sort(_)
sort(s) ==
  IF s = <<>> THEN <<>>
  ELSE insertSorted(sort(SubSeq(s, 1, Len(s) - 1)), s[Len(s)])

\* list.index(e) with cueSyntaxError.__eq__: first equal record, 0 if none
index(s, e) ==
  IF \E k \in DOMAIN s : s[k].line_num = e.line_num
  THEN CHOOSE k \in DOMAIN s :
         /\ s[k].line_num = e.line_num
         /\ \A j \in 1..(k - 1) : s[j].line_num # e.line_num
  ELSE 0

addNoSort(s, e) ==
  LET k == index(s, e)
  IN IF k = 0 THEN Append(s, e)
     ELSE [s EXCEPT ![k].message = @ \o e.message]

addReplace(s, e) ==
  LET k == index(s, e)
  IN IF k = 0 THEN sort(Append(s, e))
     ELSE [s EXCEPT ![k].message = e.message]

\* cueSynerrList.add
add(s, e) ==
  LET k == index(s, e)
  IN IF k = 0 THEN sort(Append(s, e))
     ELSE [s EXCEPT ![k].message = @ \o e.message]

---------------------------------------------------------------------------
(* Command tree *)

\* CMD.__init__: the new object, with the defaults of CMD.__getattr__ for the
\* attributes the syntax pass has not set (tag has no default: it does not
\* exist before the syntax pass sets it, and cuecheck never reads it)
CMD(linenum, key, line, parent, indent) ==
  [linenum |-> linenum, key |-> key, line |-> line, parent |-> parent,
   indent |-> indent, children |-> <<>>,
   number |-> -1, time |-> -1, content |-> "", file |-> "", type |-> "",
   tag |-> ""]

newCMDFront(t, linenum, key, line, parent, indent) ==
  [n \in DOMAIN t \cup {linenum} |->
     IF n = linenum THEN CMD(linenum, key, line, parent, indent)
     ELSE IF n = parent THEN [t[n] EXCEPT !.children = <<linenum>> \o @]
     ELSE t[n]]

\* CMD.__init__ on the heap t: the object is stored and appended to its
\* parent's children
newCMD(t, linenum, key, line, parent, indent) ==
  [n \in DOMAIN t \cup {linenum} |->
     IF n = linenum THEN CMD(linenum, key, line, parent, indent)
     ELSE IF n = parent THEN [t[n] EXCEPT !.children = Append(@, linenum)]
     ELSE t[n]]

coerceKeep(key, indent) == indent

coerceShallow(key, indent) ==
  IF indent \in Range(indentOf(key)) THEN indent ELSE indentOf(key)[1]

\* the depth the builder uses for a line of `key` with `indent` leading spaces
coerce(key, indent) ==
  IF indent \in Range(indentOf(key)) THEN indent
  ELSE IF Len(indentOf(key)) = 1 THEN indentOf(key)[1]
  ELSE indentOf(key)[2]

orRoot(cur, indent) ==
  IF cur[(indent \div 2) + 1] = Null THEN cur[1] ELSE cur[(indent \div 2) + 1]

\* current[indent//2]
openAncestor(cur, indent) == cur[(indent \div 2) + 1]

setCurrentOneSlot(cur, key, c) ==
  IF key \in {"FILE", "TRACK"} THEN [cur EXCEPT ![2] = c, ![3] = c]
  ELSE cur

\* the open-ancestor pointers after node c with `key` was created
setCurrent(cur, key, c) ==
  IF key = "FILE" THEN [cur EXCEPT ![2] = c]
  ELSE IF key = "TRACK" THEN [cur EXCEPT ![3] = c]
  ELSE cur

---------------------------------------------------------------------------
(* Traversal *)

RECURSIVE flatten(_)
flatten(ss) == IF ss = <<>> THEN <<>> ELSE Head(ss) \o flatten(Tail(ss))

\* the nodes of the subtree of n in pre-order, the order in which the
\* recursive passes visit them
RECURSIVE preorder(_, _)
preorder(t, n) ==
  <<n>> \o flatten([k \in DOMAIN t[n].children |-> preorder(t, t[n].children[k])])

\* getCmds(cmd, key)
getCmds(t, n, key) ==
  LET hasKey(m) == t[m].key = key
  IN SelectSeq(preorder(t, n), hasKey)

\* a diagnostic on its way to one of the two sets
Diag(list, cmd, message) ==
  [list |-> list, e |-> cueSyntaxError(cmd.linenum, cmd.line, message)]

\* the set `s` after the add calls of `diags`, in order, that go to `list`
RECURSIVE addAll(_, _, _)
addAll(s, diags, list) ==
  IF diags = <<>> THEN s
  ELSE addAll(IF Head(diags).list = list THEN add(s, Head(diags).e) ELSE s,
              Tail(diags), list)

---------------------------------------------------------------------------
(* Syntax pass: the rules commands[key]['syntax'] on the words of the model *)

\* int() of a two-digit word (\d\d); -1 if the word is not two digits
twoDigits(w) ==
  CASE w = "00" -> 0 [] w = "01" -> 1 [] w = "02" -> 2 [] w = "03" -> 3
    [] w = "04" -> 4 [] OTHER -> -1

\* the groups of (\d\d):(\d\d):(\d\d); <<>> if the word does not match
timeGroups(w) ==
  CASE w = "00:00:00" -> <<0, 0, 0>>
    [] w = "00:00:01" -> <<0, 0, 1>>
    [] w = "00:01:00" -> <<0, 1, 0>>
    [] w = "00:02:00" -> <<0, 2, 0>>
    [] w = "01:00:00" -> <<1, 0, 0>>
    [] w = "01:02:03" -> <<1, 2, 3>>
    [] w = "00:60:00" -> <<0, 60, 0>>
    [] w = "00:00:75" -> <<0, 0, 75>>
    [] OTHER -> <<>>

FramesPerSecond == 75

\* minutes * 60 + seconds + frames / 75, kept exact by counting in frames
\* (75 times the value the code stores)
timeOf(g) == (g[1] * 60 + g[2]) * FramesPerSecond + g[3]

TrackTypes == {"AUDIO", "CDG", "MODE1/2048", "MODE1/2352", "MODE2/2048",
               "MODE2/2324", "MODE2/2336", "MODE2/2352", "CDI/2336", "CDI/2352"}
FileTypes == {"BINARY", "MOTOROLA", "AIFF", "WAVE", "MP3"}
FlagWords == {"DCP", "4CH", "PRE", "SCMS"}

\* how a word stands to the double quote: "plain" has none (and no '|'),
\* "full" is "...", "open" starts with one, "close" ends with one
quoting(w) ==
  CASE w \in {"\"Song\"", "\"a.bin\""} -> "full"
    [] w \in {"\"My"} -> "open"
    [] w \in {"Song\""} -> "close"
    [] w \in {"a|b", "So\"ng"} -> "other"
    [] OTHER -> "plain"

\* str.replace('"', '') on a word
unquote(w) ==
  CASE w = "\"Song\"" -> "Song"
    [] w = "\"a.bin\"" -> "a.bin"
    [] w = "\"My" -> "My"
    [] w = "Song\"" -> "Song"
    [] w = "So\"ng" -> "Song"
    [] OTHER -> w

\* len() of an item
itemLen(w) ==
  CASE w \in {SP, TAB} -> 1
    [] w = "Long81" -> 81
    [] w = "\"Song\"" -> 6
    [] w = "\"a.bin\"" -> 7
    [] w = "Song\"" -> 5
    [] w = "\"My" -> 3
    [] OTHER -> 4

RECURSIVE sumLen(_)
sumLen(items) == IF items = <<>> THEN 0 ELSE itemLen(Head(items)) + sumLen(Tail(items))

\* (")?((?(1)[^"]|[^\s|"])+)(?(1)") on the items a: an unquoted word, or a
\* quoted text that may hold whitespace
textMatch(a) ==
  \/ Len(a) = 1 /\ quoting(a[1]) \in {"plain", "full"}
  \/ /\ Len(a) > 1
     /\ quoting(a[1]) = "open"
     /\ quoting(a[Len(a)]) = "close"
     /\ \A k \in 2..(Len(a) - 1) : IsSpace(a[k]) \/ quoting(a[k]) = "plain"

\* len(m.group(2)) for a text that matches
textLen(a) == IF quoting(a[1]) = "plain" THEN sumLen(a) ELSE sumLen(a) - 2

\* the characters of the items a
RECURSIVE rawText(_)
rawText(a) == IF a = <<>> THEN "" ELSE Head(a) \o rawText(Tail(a))

\* m.group(2) of the FILE rule: the text without the quotes around it
RECURSIVE textOf(_)
textOf(a) == IF a = <<>> THEN "" ELSE unquote(Head(a)) \o textOf(Tail(a))

\* ' '.join(words).replace('"', '')
RECURSIVE joinWords(_)
joinWords(ws) ==
  IF ws = <<>> THEN ""
  ELSE IF Len(ws) = 1 THEN unquote(ws[1])
  ELSE unquote(ws[1]) \o " " \o joinWords(Tail(ws))

afterIndentLoose(cmd) ==
  LET r == SubSeq(cmd.line, getSpace(cmd.line) + 1, Len(cmd.line))
  IN IF r = <<>> THEN <<>> ELSE <<upper(r[1])>> \o Tail(r)

\* the items of cmd.line after the ' ' * cmd.indent the rule starts with;
\* <<>> if the line does not start with them
afterIndent(cmd) ==
  IF /\ Len(cmd.line) > cmd.indent
     /\ \A k \in 1..cmd.indent : cmd.line[k] = SP
  THEN SubSeq(cmd.line, cmd.indent + 1, Len(cmd.line))
  ELSE <<>>

\* the position of the last item of b that is SP, 0 if none
lastSP(b) ==
  IF \E k \in DOMAIN b : b[k] = SP
  THEN CHOOSE k \in DOMAIN b : b[k] = SP /\ \A j \in (k + 1)..Len(b) : b[j] # SP
  ELSE 0

\* re.match(' ' * cmd.indent + commands[cmd.key]['syntax'], cmd.line)
match(cmd) ==
  LET r == afterIndent(cmd)
      a == SubSeq(r, 3, Len(r))       \* what follows "KEY "
  IN /\ Len(r) >= 3
     /\ r[1] = cmd.key
     /\ r[2] = SP
     /\ CASE cmd.key = "CATALOG" -> Len(a) = 1 /\ a[1] \in {"0123456789012"}
          [] cmd.key = "ISRC" -> Len(a) = 1 /\ a[1] \in {"USRC17607839"}
          [] cmd.key \in {"CDTEXTFILE", "TITLE", "PERFORMER", "SONGWRITER"} ->
               textMatch(a)
          [] cmd.key = "FILE" ->
               /\ lastSP(a) > 1
               /\ lastSP(a) = Len(a) - 1
               /\ a[Len(a)] \in FileTypes
               /\ textMatch(SubSeq(a, 1, Len(a) - 2))
          [] cmd.key = "TRACK" ->
               /\ Len(a) = 3
               /\ twoDigits(a[1]) >= 0
               /\ a[2] = SP
               /\ a[3] \in TrackTypes
          [] cmd.key \in {"PREGAP", "POSTGAP"} ->
               Len(a) = 1 /\ timeGroups(a[1]) # <<>>
          [] cmd.key = "INDEX" ->
               /\ Len(a) = 3
               /\ twoDigits(a[1]) >= 0
               /\ a[2] = SP
               /\ timeGroups(a[3]) # <<>>
          [] cmd.key = "FLAGS" ->
               /\ Len(a) % 2 = 1
               /\ \A k \in DOMAIN a :
                    IF k % 2 = 1 THEN a[k] \in FlagWords ELSE a[k] = SP
          [] cmd.key = "REM" -> TRUE
          [] OTHER -> FALSE

\* os.path.isfile(os.path.join(os.path.split(filename)[0], name))
isfile(name) == name \in media

\* the diagnostics checkCmdSyntax adds for the node cmd alone
syntaxDiags(cmd) ==
  LET r == afterIndent(cmd)
      a == SubSeq(r, 3, Len(r))
      timeError == Diag("error", cmd, "time error (second >= 60 or frame >= 75)")
  IN IF cmd.key = None THEN <<>>
     ELSE IF ~match(cmd) THEN <<Diag("error", cmd, "command syntax error")>>
     ELSE CASE cmd.key \in {"TITLE", "PERFORMER", "SONGWRITER"} ->
                 IF textLen(a) > 80
                 THEN <<Diag("warn", cmd, cmd.key \o " should not contain more than 80 characters")>>
                 ELSE <<>>
            [] cmd.key = "FILE" ->
                 LET name == textOf(SubSeq(a, 1, Len(a) - 2))
                 IN IF ~isfile(name)
                    THEN <<Diag("error", cmd, name \o " FILE not found")>>
                    ELSE <<>>
            [] cmd.key \in {"PREGAP", "POSTGAP"} ->
                 LET g == timeGroups(a[1])
                 IN IF g[2] >= 60 \/ g[3] >= 75 THEN <<timeError>> ELSE <<>>
            [] cmd.key = "INDEX" ->
                 LET g == timeGroups(a[3])
                 IN IF g[2] >= 60 \/ g[3] >= 75 THEN <<timeError>> ELSE <<>>
            [] OTHER -> <<>>

\* the node cmd after checkCmdSyntax set its fields
syntaxFields(cmd) ==
  LET r == afterIndent(cmd)
      a == SubSeq(r, 3, Len(r))
  IN IF cmd.key = None \/ ~match(cmd) THEN cmd
     ELSE CASE cmd.key \in {"TITLE", "PERFORMER", "SONGWRITER"} ->
                 [cmd EXCEPT !.content = joinWords(Tail(split(cmd.line)))]
            [] cmd.key \in {"CATALOG", "ISRC"} ->
                 [cmd EXCEPT !.content = a[1]]
            [] cmd.key = "FILE" ->
                 [cmd EXCEPT !.file = textOf(SubSeq(a, 1, Len(a) - 2))]
            [] cmd.key = "TRACK" ->
                 [cmd EXCEPT !.number = twoDigits(a[1]), !.type = a[3]]
            [] cmd.key \in {"PREGAP", "POSTGAP"} ->
                 [cmd EXCEPT !.time = timeOf(timeGroups(a[1]))]
            [] cmd.key = "INDEX" ->
                 [cmd EXCEPT !.number = twoDigits(a[1]),
                             !.time = timeOf(timeGroups(a[3]))]
            [] cmd.key = "REM" ->
                 LET ss == split(cmd.line)
                 IN IF Len(ss) >= 3 /\ isupper(ss[2])
                    THEN [cmd EXCEPT !.tag = ss[2],
                                     !.content = joinWords(SubSeq(ss, 3, Len(ss)))]
                    ELSE [cmd EXCEPT !.content = rawText(a)]
            [] OTHER -> cmd

---------------------------------------------------------------------------
(* Structural, multiplicity and order passes *)

\* findChildCmd(cmd, key)
findChildCmd(t, cmd, key) ==
  \E k \in DOMAIN cmd.children : t[cmd.children[k]].key = key

\* what the body of checkCmdChildren's loop adds for cmd and its child c
childDiags(t, cmd, c) ==
  (IF cmd.key # None /\ c.key \notin childrenOf(cmd.key)
   THEN <<Diag("error", cmd, "have error child " \o c.key)>>
   ELSE <<>>)
  \o
  (IF cmd.key = "FILE"
   THEN IF ~findChildCmd(t, cmd, "TRACK")
        THEN <<Diag("error", cmd, "FILE not have TRACK")>>
        ELSE <<>>
   ELSE IF cmd.key = "TRACK"
   THEN (IF ~findChildCmd(t, cmd, "INDEX")
         THEN <<Diag("error", cmd, "TRACK not have INDEX")>>
         ELSE <<>>)
        \o
        (IF ~findChildCmd(t, cmd, "TITLE")
         THEN <<Diag("warn", cmd, "TRACK not have TITLE")>>
         ELSE <<>>)
   ELSE <<>>)

\* checkCmdChildren(cmd): the checks run once per child of cmd, inside the
\* loop over cmd.children, each followed by the recursion into that child
RECURSIVE checkCmdChildren(_, _)
checkCmdChildren(t, n) ==
  flatten([k \in DOMAIN t[n].children |->
             childDiags(t, t[n], t[t[n].children[k]])
             \o checkCmdChildren(t, t[n].children[k])])

mulDiagsAnywhere(t, cmd) ==
  IF cmd.key # None /\ ~multiple(cmd.key)
  THEN IF Cardinality({n \in DOMAIN t : t[n].key = cmd.key}) > 1
       THEN <<Diag("error", cmd, "multiple command error")>>
       ELSE <<>>
  ELSE <<>>

mulDiagsLater(t, cmd) ==
  IF cmd.key # None /\ ~multiple(cmd.key)
  THEN LET sibs == t[cmd.parent].children
           earlier == {k \in DOMAIN sibs :
                         t[sibs[k]].key = cmd.key /\ sibs[k] < cmd.linenum}
       IN IF earlier # {}
          THEN <<Diag("error", cmd, "multiple command error")>>
          ELSE <<>>
  ELSE <<>>

\* what checkCmdMul adds for the node cmd alone
mulDiags(t, cmd) ==
  IF cmd.key # None /\ ~multiple(cmd.key)
  THEN LET sibs == t[cmd.parent].children
           same == {k \in DOMAIN sibs : t[sibs[k]].key = cmd.key}
       IN IF Cardinality(same) > 1
          THEN <<Diag("error", cmd, "multiple command error")>>
          ELSE <<>>
  ELSE <<>>

checkCmdMul(t) ==
  LET nodes == preorder(t, 0)
  IN flatten([k \in DOMAIN nodes |-> mulDiags(t, t[nodes[k]])])

\* commands[cmd.key]['position'][cmd.parent.key] raises KeyError
positionUndefined(t, cmd) ==
  cmd.key # None /\ t[cmd.parent].key \notin parentsOf(cmd.key)

orderDiagsSwapped(t, cmd) ==
  IF cmd.key = None THEN <<>>
  ELSE
    LET sibs == t[cmd.parent].children
        me == CHOOSE k \in DOMAIN sibs : sibs[k] = cmd.linenum
        pos == position(cmd.key, t[cmd.parent].key)
        e == Diag("error", cmd, "command order error")
    IN flatten([k \in DOMAIN sibs |->
                  IF k > me /\ t[sibs[k]].key \in pos.before THEN <<e>> ELSE <<>>])
       \o
       flatten([k \in DOMAIN sibs |->
                  IF k <= me /\ t[sibs[k]].key \in pos.after THEN <<e>> ELSE <<>>])

\* what checkCmdOrder adds for the node cmd alone
orderDiags(t, cmd) ==
  IF cmd.key = None THEN <<>>
  ELSE
    LET sibs == t[cmd.parent].children
        me == CHOOSE k \in DOMAIN sibs : sibs[k] = cmd.linenum
        pos == position(cmd.key, t[cmd.parent].key)
        e == Diag("error", cmd, "command order error")
    IN flatten([k \in DOMAIN sibs |->
                  IF k > me /\ t[sibs[k]].key \in pos.after THEN <<e>> ELSE <<>>])
       \o
       flatten([k \in DOMAIN sibs |->
                  IF k <= me /\ t[sibs[k]].key \in pos.before THEN <<e>> ELSE <<>>])

checkCmdOrder(t) ==
  LET nodes == preorder(t, 0)
  IN flatten([k \in DOMAIN nodes |-> orderDiags(t, t[nodes[k]])])

---------------------------------------------------------------------------
(* Sequence passes *)

trackDiagsPerFile(t) ==
  LET fl == getCmds(t, 0, "FILE")
      of(tl) ==
        (IF tl # <<>> /\ t[tl[1]].number # 1
         THEN <<Diag("warn", t[tl[1]], "first TRACK number not is 1")>>
         ELSE <<>>)
        \o
        flatten([k \in 1..(Len(tl) - 1) |->
                   IF t[tl[k]].number + 1 # t[tl[k + 1]].number
                   THEN <<Diag("error", t[tl[k]],
                               "TRACK number error, " \o ToString(t[tl[k]].number)
                               \o " -> " \o ToString(t[tl[k + 1]].number))>>
                   ELSE <<>>])
  IN flatten([k \in DOMAIN fl |-> of(getCmds(t, fl[k], "TRACK"))])

\* the TRACK number pass over tracklist
trackDiags(t) ==
  LET tl == getCmds(t, 0, "TRACK")
  IN (IF tl # <<>> /\ t[tl[1]].number # 1
      THEN <<Diag("warn", t[tl[1]], "first TRACK number not is 1")>>
      ELSE <<>>)
     \o
     flatten([k \in 1..(Len(tl) - 1) |->
                IF t[tl[k]].number + 1 # t[tl[k + 1]].number
                THEN <<Diag("error", t[tl[k]],
                            "TRACK number error, " \o ToString(t[tl[k]].number)
                            \o " -> " \o ToString(t[tl[k + 1]].number))>>
                ELSE <<>>])

findexDiagsStrict(t, c) ==
  LET fx == getCmds(t, c, "INDEX")
  IN (IF fx # <<>> /\ t[fx[1]].time # 0
      THEN <<Diag("error", t[fx[1]], "first INDEX time not is 0 of FILE")>>
      ELSE <<>>)
     \o
     flatten([k \in 1..(Len(fx) - 1) |->
                IF t[fx[k]].time > t[fx[k + 1]].time
                THEN <<Diag("error", t[fx[k]],
                            "INDEX time error, " \o ToString(t[fx[k]].time)
                            \o " >= " \o ToString(t[fx[k + 1]].time))>>
                ELSE <<>>])

\* the INDEX time pass for the FILE node c (times are printed in frames)
findexDiags(t, c) ==
  LET fx == getCmds(t, c, "INDEX")
  IN (IF fx # <<>> /\ t[fx[1]].time # 0
      THEN <<Diag("error", t[fx[1]], "first INDEX time not is 0 of FILE")>>
      ELSE <<>>)
     \o
     flatten([k \in 1..(Len(fx) - 1) |->
                IF t[fx[k]].time >= t[fx[k + 1]].time
                THEN <<Diag("error", t[fx[k]],
                            "INDEX time error, " \o ToString(t[fx[k]].time)
                            \o " >= " \o ToString(t[fx[k + 1]].time))>>
                ELSE <<>>])

fileDiags(t) ==
  LET fl == getCmds(t, 0, "FILE")
  IN flatten([k \in DOMAIN fl |-> findexDiags(t, fl[k])])

tindexDiagsFromOne(t, c) ==
  LET tx == getCmds(t, c, "INDEX")
  IN (IF tx # <<>> /\ t[tx[1]].number # 1
      THEN <<Diag("error", t[tx[1]], "first INDEX number not is 0 or 1 of TRACK")>>
      ELSE <<>>)
     \o
     flatten([k \in 1..(Len(tx) - 1) |->
                IF t[tx[k]].number + 1 # t[tx[k + 1]].number
                THEN <<Diag("error", t[tx[k]],
                            "INDEX number error, " \o ToString(t[tx[k]].number)
                            \o " -> " \o ToString(t[tx[k + 1]].number))>>
                ELSE <<>>])

\* the INDEX number pass for the TRACK node c
tindexDiags(t, c) ==
  LET tx == getCmds(t, c, "INDEX")
  IN (IF tx # <<>> /\ ~(t[tx[1]].number = 0 \/ t[tx[1]].number = 1)
      THEN <<Diag("error", t[tx[1]], "first INDEX number not is 0 or 1 of TRACK")>>
      ELSE <<>>)
     \o
     flatten([k \in 1..(Len(tx) - 1) |->
                IF t[tx[k]].number + 1 # t[tx[k + 1]].number
                THEN <<Diag("error", t[tx[k]],
                            "INDEX number error, " \o ToString(t[tx[k]].number)
                            \o " -> " \o ToString(t[tx[k + 1]].number))>>
                ELSE <<>>])

indexDiags(t) ==
  LET tl == getCmds(t, 0, "TRACK")
  IN flatten([k \in DOMAIN tl |-> tindexDiags(t, tl[k])])

---------------------------------------------------------------------------
(* Exceptions *)

NoException == [type |-> "None", message |-> "", line_num |-> 0]
cuecheckError(message, line_num) ==
  [type |-> "cuecheckError", message |-> message, line_num |-> line_num]
IndexError == [type |-> "IndexError", message |-> "list index out of range", line_num |-> 0]
KeyError == [type |-> "KeyError", message |-> "position", line_num |-> 0]

\* os.path.splitext(filename)[1]
splitext(name) ==
  CASE name = "disc.cue" -> ".cue"
    [] name = "disc.txt" -> ".txt"
    [] OTHER -> ""

---------------------------------------------------------------------------
(* Inputs *)

Ln(n, words) ==
  LET RECURSIVE join(_)
      join(ws) == IF Len(ws) <= 1 THEN ws
                  ELSE <<Head(ws), SP>> \o join(Tail(ws))
  IN [k \in 1..n |-> SP] \o join(words)

Lines ==
  { <<>>,
    <<SP, TAB>>,
    Ln(0, <<"FILE", "a.bin", "BINARY">>),
    Ln(2, <<"TRACK", "01", "AUDIO">>),
    Ln(1, <<"track", "02", "AUDIO">>),
    Ln(0, <<"TITLE", "Song">>),
    Ln(2, <<"TITLE", "Song">>),
    Ln(4, <<"TITLE", "Song">>),
    Ln(4, <<"INDEX", "01", "00:00:00">>),
    Ln(0, <<"foo">>),
    Ln(2, <<"FOO">>) }

SeqsUpTo(S, n) == UNION {[1..k -> S] : k \in 0..n}

Documents == SeqsUpTo(Lines, MaxLines)

BOMDocuments == SeqsUpTo(Lines, MaxBOMLines)

\* a document whose first line starts with a byte-order mark
withBOM(doc) == IF doc = <<>> THEN doc ELSE [doc EXCEPT ![1] = <<BOM>> \o @]

NoFile == [exists |-> FALSE, decodable |-> FALSE, lines |-> <<>>]
Undecodable == [exists |-> TRUE, decodable |-> FALSE, lines |-> <<>>]
TextFile(doc) == [exists |-> TRUE, decodable |-> TRUE, lines |-> doc]

\* lines for the multiplicity and order passes: singleton and repeatable
\* commands of the document scope and of the track scope
SiblingLines ==
  { Ln(0, <<"CATALOG", "0123456789012">>),
    Ln(0, <<"CDTEXTFILE", "a.cdt">>),
    Ln(0, <<"TITLE", "Song">>),
    Ln(0, <<"FILE", "a.bin", "BINARY">>),
    Ln(2, <<"TRACK", "01", "AUDIO">>),
    Ln(4, <<"TITLE", "Song">>),
    Ln(4, <<"INDEX", "01", "00:00:00">>),
    Ln(4, <<"POSTGAP", "00:02:00">>) }

\* lines for the sequence passes: track numbers, index numbers and times,
\* and a TRACK line (keyword in lower case) and an INDEX line (3 leading
\* spaces) that do not match their syntax rule
SequenceLines ==
  { Ln(0, <<"FILE", "a.bin", "BINARY">>),
    Ln(2, <<"TRACK", "02", "AUDIO">>),
    Ln(2, <<"TRACK", "03", "AUDIO">>),
    Ln(2, <<"track", "02", "AUDIO">>),
    Ln(4, <<"TITLE", "Song">>),
    Ln(4, <<"INDEX", "01", "00:00:00">>),
    Ln(4, <<"INDEX", "02", "00:02:00">>),
    Ln(4, <<"INDEX", "00", "01:02:03">>),
    Ln(3, <<"INDEX", "01", "00:00:00">>) }

\* how a document of the sequence passes begins
Heads ==
  { <<>>,
    << Ln(0, <<"FILE", "a.bin", "BINARY">>), Ln(2, <<"TRACK", "01", "AUDIO">>) >>,
    << Ln(0, <<"CATALOG", "0123456789012">>), Ln(0, <<"TITLE", "Song">>),
       Ln(0, <<"FILE", "a.bin", "BINARY">>), Ln(2, <<"TRACK", "01", "AUDIO">>),
       Ln(4, <<"TITLE", "Song">>), Ln(4, <<"INDEX", "01", "00:00:00">>) >> }

PassDocuments ==
  SeqsUpTo(SiblingLines, MaxSiblingLines)
  \cup {h \o t : h \in Heads, t \in SeqsUpTo(SequenceLines, MaxTailLines)}

Messages == {"m1", "m2"}

MediaFiles == {"a.bin"}

---------------------------------------------------------------------------
(* Initial state *)

InitRun ==
  /\ pc = "open"
  /\ d = <<>>
  /\ i = 0
  /\ cmds = <<>>
  /\ current = <<Null, Null, Null, Null>>
  /\ errorlist = <<>>
  /\ warnlist = <<>>
  /\ raised = NoException
  /\ errlist = <<>>
  /\ calls = <<>>
  /\ media = MediaFiles

Init ==
  /\ InitRun
  /\ \/ /\ entry = "add"
        /\ filename = ""
        /\ f = NoFile
     \/ /\ entry = "cuecheck"
        /\ \/ filename = "disc.txt" /\ f = TextFile(<<>>)
           \/ filename = "disc.cue" /\ f \in {NoFile, Undecodable}
           \/ filename = "disc.cue" /\ \E doc \in Documents : f = TextFile(doc)
           \/ filename = "disc.cue" /\ \E doc \in BOMDocuments : f = TextFile(withBOM(doc))

\* cuecheck on a document written for the validation passes
PassInit ==
  /\ InitRun
  /\ entry = "cuecheck"
  /\ filename = "disc.cue"
  /\ \E doc \in PassDocuments : f = TextFile(doc)

---------------------------------------------------------------------------
(* Direct use of the collector *)

Add ==
  /\ entry = "add"
  /\ Len(calls) < MaxAdds
  /\ \E n \in 1..MaxLineNum, m \in Messages :
       /\ errlist' = add(errlist, cueSyntaxError(n, <<>>, m))
       /\ calls' = Append(calls, <<n, m>>)
  /\ UNCHANGED <<inputs, pc, d, i, cmds, current, errorlist, warnlist, raised>>

---------------------------------------------------------------------------
(* cuecheck: preconditions, reading the file, creating the root *)

Open ==
  /\ entry = "cuecheck"
  /\ pc = "open"
  /\ IF splitext(filename) # ".cue"
     THEN /\ raised' = cuecheckError("is not cue.", 0)
          /\ pc' = "raised"
          /\ UNCHANGED <<d, cmds, current>>
     ELSE IF ~f.exists
     THEN /\ raised' = cuecheckError("is not exists.", 0)
          /\ pc' = "raised"
          /\ UNCHANGED <<d, cmds, current>>
     ELSE IF ~f.decodable
     THEN /\ raised' = cuecheckError("Decode Error", 0)
          /\ pc' = "raised"
          /\ UNCHANGED <<d, cmds, current>>
     ELSE IF f.lines = <<>>
     THEN \* d[0] on an empty list
          /\ raised' = IndexError
          /\ pc' = "raised"
          /\ d' = f.lines
          /\ UNCHANGED <<cmds, current>>
     ELSE /\ d' = IF f.lines[1] # <<>> /\ Head(f.lines[1]) = BOM
                  THEN [f.lines EXCEPT ![1] = Tail(@)]
                  ELSE f.lines
          /\ cmds' = [n \in {0} |-> CMD(0, None, <<filename>>, Null, 0)]
          /\ current' = <<0, Null, Null, Null>>
          /\ pc' = "build"
          /\ UNCHANGED raised
  /\ UNCHANGED <<inputs, errlist, calls, i, errorlist, warnlist>>

---------------------------------------------------------------------------
(* cuecheck: one iteration of the tree-building loop *)

Build ==
  /\ entry = "cuecheck"
  /\ pc = "build"
  /\ i < Len(d)
  /\ LET line == d[i + 1]
         ss == split(line)
         e1 == IF ~isupper(ss[1])
               THEN add(errorlist, cueSyntaxError(i + 1, line, "command not is capital"))
               ELSE errorlist
         key == upper(ss[1])
         indent == getSpace(line)
         e2 == IF indent \notin Range(indentOf(key))
               THEN add(e1, cueSyntaxError(i + 1, line, "indent error"))
               ELSE e1
         depth == coerce(key, indent)
         next == IF i + 1 = Len(d) THEN "checkCmdSyntax" ELSE "build"
     IN IF isblank(line)
        THEN /\ errorlist' = add(errorlist, cueSyntaxError(i + 1, line, "is blank"))
             /\ i' = i + 1
             /\ pc' = next
             /\ UNCHANGED <<cmds, current, raised>>
        ELSE IF ss = <<>>
        THEN \* ss[0] on an empty list
             /\ raised' = IndexError
             /\ pc' = "raised"
             /\ UNCHANGED <<errorlist, i, cmds, current>>
        ELSE IF key \notin Keys
        THEN /\ errorlist' = add(e1, cueSyntaxError(i + 1, line, "command not found"))
             /\ i' = i + 1
             /\ pc' = next
             /\ UNCHANGED <<cmds, current, raised>>
        ELSE IF openAncestor(current, depth) # Null
        THEN /\ errorlist' = e2
             /\ cmds' = newCMD(cmds, i + 1, key, line, openAncestor(current, depth), depth)
             /\ current' = setCurrent(current, key, i + 1)
             /\ i' = i + 1
             /\ pc' = next
             /\ UNCHANGED raised
        ELSE /\ errorlist' = e2
             /\ raised' = cuecheckError("parent error", i + 1)
             /\ pc' = "raised"
             /\ UNCHANGED <<i, cmds, current>>
  /\ UNCHANGED <<inputs, errlist, calls, d, warnlist>>

---------------------------------------------------------------------------
(* cuecheck: the validation passes, in the order cuecheck runs them *)

\* a pass that adds `diags` to the two sets and goes on to `next`
Report(diags, next) ==
  /\ errorlist' = addAll(errorlist, diags, "error")
  /\ warnlist' = addAll(warnlist, diags, "warn")
  /\ pc' = next

CheckCmdSyntax ==
  /\ entry = "cuecheck"
  /\ pc = "checkCmdSyntax"
  /\ LET nodes == preorder(cmds, 0)
     IN Report(flatten([k \in DOMAIN nodes |-> syntaxDiags(cmds[nodes[k]])]),
               "checkCmdChildren")
  /\ cmds' = [n \in DOMAIN cmds |-> syntaxFields(cmds[n])]
  /\ UNCHANGED <<inputs, errlist, calls, d, i, current, raised>>

CheckCmdChildren ==
  /\ entry = "cuecheck"
  /\ pc = "checkCmdChildren"
  /\ Report(checkCmdChildren(cmds, 0), "checkCmdMul")
  /\ UNCHANGED <<inputs, errlist, calls, d, i, cmds, current, raised>>

CheckCmdMul ==
  /\ entry = "cuecheck"
  /\ pc = "checkCmdMul"
  /\ Report(checkCmdMul(cmds), "checkCmdOrder")
  /\ UNCHANGED <<inputs, errlist, calls, d, i, cmds, current, raised>>

CheckCmdOrder ==
  /\ entry = "cuecheck"
  /\ pc = "checkCmdOrder"
  /\ IF \E n \in DOMAIN cmds : positionUndefined(cmds, cmds[n])
     THEN /\ raised' = KeyError
          /\ pc' = "raised"
          /\ UNCHANGED <<errorlist, warnlist>>
     ELSE /\ Report(checkCmdOrder(cmds), "tracklist")
          /\ UNCHANGED raised
  /\ UNCHANGED <<inputs, errlist, calls, d, i, cmds, current>>

CheckTrackNumbers ==
  /\ entry = "cuecheck"
  /\ pc = "tracklist"
  /\ Report(trackDiags(cmds), "findex")
  /\ UNCHANGED <<inputs, errlist, calls, d, i, cmds, current, raised>>

CheckIndexTimes ==
  /\ entry = "cuecheck"
  /\ pc = "findex"
  /\ Report(fileDiags(cmds), "tindex")
  /\ UNCHANGED <<inputs, errlist, calls, d, i, cmds, current, raised>>

\* the last pass; cuecheck then returns errorlist, warnlist, root
CheckIndexNumbers ==
  /\ entry = "cuecheck"
  /\ pc = "tindex"
  /\ Report(indexDiags(cmds), "returned")
  /\ UNCHANGED <<inputs, errlist, calls, d, i, cmds, current, raised>>

---------------------------------------------------------------------------

Next ==
  \/ Add
  \/ Open
  \/ Build
  \/ CheckCmdSyntax
  \/ CheckCmdChildren
  \/ CheckCmdMul
  \/ CheckCmdOrder
  \/ CheckTrackNumbers
  \/ CheckIndexTimes
  \/ CheckIndexNumbers

Spec == Init /\ [][Next]_vars

\* a run of cuecheck alone
Run ==
  \/ Open
  \/ Build
  \/ CheckCmdSyntax
  \/ CheckCmdChildren
  \/ CheckCmdMul
  \/ CheckCmdOrder
  \/ CheckTrackNumbers
  \/ CheckIndexTimes
  \/ CheckIndexNumbers

PassSpec == PassInit /\ [][Run]_vars

---------------------------------------------------------------------------
(* Vocabulary of the properties.  It reads the text of the lines directly,  *)
(* not through the operators of the model above.                            *)

\* the messages of the record of line n in the set s (none: no record)
msgsAt(s, n) ==
  IF \E k \in DOMAIN s : s[k].line_num = n
  THEN s[CHOOSE k \in DOMAIN s : s[k].line_num = n].message
  ELSE <<>>

\* how often message m is recorded at line n of the set s
countAt(s, n, m) ==
  LET ms == msgsAt(s, n)
  IN Cardinality({k \in DOMAIN ms : ms[k] = m})

\* the line holds nothing but whitespace
onlyWhitespace(line) == \A k \in DOMAIN line : line[k] \in {SP, TAB}

\* the first token of a line that is not only whitespace
firstWord(line) ==
  line[CHOOSE k \in DOMAIN line :
         /\ line[k] \notin {SP, TAB}
         /\ \A j \in 1..(k - 1) : line[j] \in {SP, TAB}]

\* the number of space characters the line starts with
leadingSpaces(line) ==
  Cardinality({k \in DOMAIN line : \A j \in 1..k : line[j] = SP})

\* the line names a command of the grammar registry, in any letter case
knownKey(line) == ~onlyWhitespace(line) /\ upper(firstWord(line)) \in Keys
keyOfLine(line) == upper(firstWord(line))

\* the tree-building loop has classified line k
Seen(k) ==
  /\ entry = "cuecheck"
  /\ k \in 1..Len(d)
  /\ \/ k <= i
     \/ pc = "raised" /\ raised.line_num = k

Nodes == IF entry = "cuecheck" /\ cmds # <<>> THEN DOMAIN cmds \ {0} ELSE {}

\* a node with `key` had been created when line k was classified
createdBefore(k, key) == \E n \in Nodes : n < k /\ cmds[n].key = key

ClassifierMessages ==
  {"is blank", "command not is capital", "command not found", "indent error"}

\* nothing a validation pass leaves behind is there: no field of a node is
\* set, no warning, and no error but those of the line classifier
NoPassHasRun ==
  /\ warnlist = <<>>
  /\ \A k \in DOMAIN errorlist :
       Range(errorlist[k].message) \subseteq ClassifierMessages
  /\ \A n \in Nodes :
       /\ cmds[n].number = -1 /\ cmds[n].time = -1
       /\ cmds[n].content = "" /\ cmds[n].file = "" /\ cmds[n].type = ""

PermittedDepths(key) == Range(indentOf(key))
Deepest(key) == CHOOSE x \in PermittedDepths(key) : \A y \in PermittedDepths(key) : y <= x

---------------------------------------------------------------------------
(* C1: after any sequence of add calls, with line numbers in any order, no *)
(* two records of a diagnostic set share a line number and the records are *)
(* in strictly ascending line-number order.  Checked on the set used       *)
(* directly and on the error and warning sets of cuecheck.                 *)

Ascending(s) ==
  \A j, k \in DOMAIN s : j < k => s[j].line_num < s[k].line_num

C1_StrictlyAscending ==
  /\ Ascending(errlist)
  /\ Ascending(errorlist)
  /\ Ascending(warnlist)

\* calls arrived out of order and one of them was merged
C1_Witness ==
  /\ entry = "add"
  /\ Len(errlist) >= 2
  /\ Len(calls) > Len(errlist)
  /\ \E j, k \in DOMAIN calls : j < k /\ calls[j][1] > calls[k][1]

---------------------------------------------------------------------------
(* C2: no message is dropped by the collector: the record of a line holds  *)
(* exactly the messages of the add calls made for that line, in call       *)
(* order; there is one record per line that was recorded and none for any  *)
(* other; the messages of all records are as many as the add calls.        *)

\* the messages of the calls made for line n, in call order
RECURSIVE calledFor(_, _)
calledFor(cs, n) ==
  IF cs = <<>> THEN <<>>
  ELSE (IF Head(cs)[1] = n THEN <<Head(cs)[2]>> ELSE <<>>) \o calledFor(Tail(cs), n)

RECURSIVE totalMessages(_)
totalMessages(s) ==
  IF s = <<>> THEN 0 ELSE Len(Head(s).message) + totalMessages(Tail(s))

C2_NoMessageDropped ==
  entry = "add" =>
    /\ \A n \in 1..MaxLineNum : msgsAt(errlist, n) = calledFor(calls, n)
    /\ {errlist[k].line_num : k \in DOMAIN errlist} = {calls[k][1] : k \in DOMAIN calls}
    /\ Len(errlist) = Cardinality({calls[k][1] : k \in DOMAIN calls})
    /\ totalMessages(errlist) = Len(calls)

\* a record that merged two different messages, beside another record
C2_Witness ==
  /\ entry = "add"
  /\ Len(errlist) >= 2
  /\ \E k \in DOMAIN errlist : errlist[k].message = <<"m2", "m1">>

---------------------------------------------------------------------------
(* C3: a line with a known keyword whose coerced depth needs an open FILE  *)
(* (depth 2) or an open TRACK (depth 4) when none has been created aborts  *)
(* the run with the fatal 'parent error' at that line: no node is created  *)
(* for it, no later line is processed, no validation pass has run and      *)
(* nothing more happens.  Every other line with a known keyword gets its   *)
(* node and the loop goes on to the next line.                             *)

needsMissingAncestor(k) ==
  LET depth == coerce(keyOfLine(d[k]), leadingSpaces(d[k]))
  IN \/ depth = 2 /\ ~createdBefore(k, "FILE")
     \/ depth = 4 /\ ~createdBefore(k, "TRACK")

C3_ParentError ==
  \A k \in 1..Len(d) :
    Seen(k) /\ knownKey(d[k]) =>
      IF needsMissingAncestor(k)
      THEN /\ pc = "raised"
           /\ raised = cuecheckError("parent error", k)
           /\ k \notin Nodes
           /\ i = k - 1
           /\ \A n \in Nodes : n < k
           /\ NoPassHasRun
           /\ ~ENABLED Next
      ELSE /\ k \in Nodes
           /\ raised.line_num # k
           /\ (k < Len(d) => (i = k /\ pc = "build") \/ Seen(k + 1))

\* the abort happens on a later line, with part of the tree already built
C3_Witness ==
  /\ pc = "raised"
  /\ raised = cuecheckError("parent error", 3)
  /\ Nodes = {1, 2}
  /\ Len(d) > 3

---------------------------------------------------------------------------
(* C4 (as claimed): every run of cuecheck, on a document of any length     *)
(* including zero lines, ends by returning after classifying every line or *)
(* by raising one cuecheckError; no other exception is raised, and a       *)
(* diagnostic recorded for a line never stops the loop.                    *)

C4_ReturnsOrFatal ==
  entry = "cuecheck" =>
    /\ raised.type \in {"None", "cuecheckError"}
    /\ (pc = "returned" => i = Len(d) /\ raised = NoException)
    /\ (pc = "raised" <=> raised # NoException)
    /\ (pc = "build" /\ i < Len(d) => ENABLED Build)
    /\ (~ENABLED Next => pc \in {"returned", "raised"})

---------------------------------------------------------------------------
(* C5 (as claimed): a TITLE line with 2 leading spaces, classified before  *)
(* any FILE or TRACK node exists, records 'indent error', still gets a     *)
(* TITLE node under the root, and the run is not aborted.                  *)

misindentedTitleAtTop(k) ==
  /\ Seen(k)
  /\ knownKey(d[k])
  /\ keyOfLine(d[k]) = "TITLE"
  /\ leadingSpaces(d[k]) = 2
  /\ ~createdBefore(k, "FILE")
  /\ ~createdBefore(k, "TRACK")

C5_AttachesAtRoot ==
  \A k \in 1..Len(d) :
    misindentedTitleAtTop(k) =>
      /\ countAt(errorlist, k, "indent error") = 1
      /\ k \in Nodes
      /\ cmds[k].key = "TITLE"
      /\ cmds[k].parent = 0
      /\ pc # "raised"

(* C5 (amended): such a line records 'indent error' and is coerced to the  *)
(* deeper permitted depth 4; as no TRACK is open, no node is created and   *)
(* the run aborts with the fatal 'parent error' at that line, before any   *)
(* validation pass.                                                        *)

C5_AbortsWithParentError ==
  \A k \in 1..Len(d) :
    misindentedTitleAtTop(k) =>
      /\ countAt(errorlist, k, "indent error") = 1
      /\ k \notin Nodes
      /\ pc = "raised"
      /\ raised = cuecheckError("parent error", k)
      /\ i = k - 1
      /\ NoPassHasRun

\* the line comes after a top-level command that did get its node
C5_Witness ==
  /\ misindentedTitleAtTop(2)
  /\ 1 \in Nodes
  /\ pc = "raised"

---------------------------------------------------------------------------
(* C6: for every classified line with a known keyword: if its count of     *)
(* leading spaces is a permitted depth of the keyword, no 'indent error'   *)
(* is recorded and its node has that depth; otherwise exactly one 'indent  *)
(* error' is recorded at the line and its node has the keyword's sole      *)
(* permitted depth, or the deeper of its two.  Every node's depth is in    *)
(* {0, 2, 4} and is a permitted depth of its keyword.                      *)

C6_IndentCoercion ==
  /\ \A k \in 1..Len(d) :
       Seen(k) /\ knownKey(d[k]) =>
         LET key == keyOfLine(d[k])
             sp == leadingSpaces(d[k])
         IN IF sp \in PermittedDepths(key)
            THEN /\ countAt(errorlist, k, "indent error") = 0
                 /\ (k \in Nodes => cmds[k].indent = sp)
            ELSE /\ countAt(errorlist, k, "indent error") = 1
                 /\ (k \in Nodes => cmds[k].indent = Deepest(key))
  /\ \A n \in Nodes :
       /\ cmds[n].key = keyOfLine(d[n])
       /\ cmds[n].indent \in {0, 2, 4}
       /\ cmds[n].indent \in PermittedDepths(cmds[n].key)

\* both kinds of coercion in one tree: a TRACK with 1 leading space (sole
\* depth 2) and a TITLE with 2 (deeper of 0 and 4)
C6_Witness ==
  \E m, n \in Nodes :
    /\ cmds[m].key = "TRACK" /\ leadingSpaces(d[m]) = 1 /\ cmds[m].indent = 2
    /\ cmds[n].key = "TITLE" /\ leadingSpaces(d[n]) = 2 /\ cmds[n].indent = 4
    /\ countAt(errorlist, m, "indent error") = 1
    /\ countAt(errorlist, n, "indent error") = 1

---------------------------------------------------------------------------
(* C7: classifying a line that is blank after whitespace collapsing, or    *)
(* whose upper-cased first token is not in the grammar registry, creates   *)
(* no node and leaves the tree, the open-ancestor pointers and the warning *)
(* set unchanged; its only effect is one new record in the error set, at   *)
(* that line, holding 'is blank', respectively 'command not found'         *)
(* preceded by 'command not is capital' if the token was not upper-case.   *)
(* The loop goes on; the record stays as it is for the rest of the run.    *)

skippedLine(line) == onlyWhitespace(line) \/ upper(firstWord(line)) \notin Keys

skipMessages(line) ==
  IF onlyWhitespace(line) THEN <<"is blank">>
  ELSE IF isupper(firstWord(line)) THEN <<"command not found">>
  ELSE <<"command not is capital", "command not found">>

C7_SkipStep ==
  (entry = "cuecheck" /\ pc = "build" /\ i < Len(d) /\ skippedLine(d[i + 1])) =>
    /\ cmds' = cmds
    /\ current' = current
    /\ warnlist' = warnlist
    /\ raised' = raised
    /\ i' = i + 1
    /\ pc' \in {"build", "checkCmdSyntax"}
    /\ Len(errorlist') = Len(errorlist) + 1
    /\ \A k \in DOMAIN errorlist : \E j \in DOMAIN errorlist' : errorlist'[j] = errorlist[k]
    /\ \E j \in DOMAIN errorlist' :
         errorlist'[j] = [line_num |-> i + 1, line |-> d[i + 1],
                          message |-> skipMessages(d[i + 1])]

C7_SkipLeavesNoTrace ==
  \A k \in 1..Len(d) :
    Seen(k) /\ skippedLine(d[k]) =>
      /\ k \notin Nodes
      /\ \A n \in Nodes : cmds[n].parent # k
      /\ \A j \in DOMAIN current : current[j] # k
      /\ msgsAt(errorlist, k) = skipMessages(d[k])
      /\ msgsAt(warnlist, k) = <<>>

C7_SkippedLineFrame == [][C7_SkipStep]_vars /\ []C7_SkipLeavesNoTrace

\* a whitespace-only line and an unknown lower-case keyword between a FILE
\* and the TRACK that still attaches to it
C7_Witness ==
  /\ Seen(4)
  /\ 1 \in Nodes /\ cmds[1].key = "FILE"
  /\ d[2] = <<SP, TAB>>
  /\ d[3] = <<"foo">>
  /\ 4 \in Nodes /\ cmds[4].key = "TRACK" /\ cmds[4].parent = 1
  /\ cmds[1].children = <<4>>
  /\ pc = "returned"

---------------------------------------------------------------------------
(* C8 (as claimed): once a later FILE node exists, no node created after   *)
(* it is attached to an earlier FILE or to a TRACK under an earlier FILE;  *)
(* once a later TRACK node exists, no node created after it is attached to *)
(* an earlier TRACK.                                                       *)

\* the node n was created after the node m
createdAfter(n, m) == m < n

C8_LaterNodeCloses ==
  \A n \in Nodes :
    LET p == cmds[n].parent
    IN /\ \A m \in Nodes :
            cmds[m].key = "FILE" /\ createdAfter(n, m) =>
              /\ (cmds[p].key = "FILE" => p >= m)
              /\ (cmds[p].key = "TRACK" => cmds[p].parent >= m)
       /\ \A m \in Nodes :
            cmds[m].key = "TRACK" /\ createdAfter(n, m) =>
              (cmds[p].key = "TRACK" => p >= m)

---------------------------------------------------------------------------
(* C9 (as claimed): in the returned error set, a FILE node has 'FILE not   *)
(* have TRACK' at its line exactly if it has no TRACK child.               *)

hasChild(n, key) == \E k \in DOMAIN cmds[n].children : cmds[cmds[n].children[k]].key = key

C9_FileNeedsTrack ==
  pc = "returned" =>
    \A n \in Nodes :
      cmds[n].key = "FILE" =>
        (countAt(errorlist, n, "FILE not have TRACK") > 0 <=> ~hasChild(n, "TRACK"))

---------------------------------------------------------------------------
(* C10 (as claimed): in the returned sets, a TRACK node has 'TRACK not     *)
(* have INDEX' in the error set at its line exactly if it has no INDEX     *)
(* child, and 'TRACK not have TITLE' in the warning set at its line        *)
(* exactly if it has no TITLE child, never in the error set.               *)

C10_TrackNeedsIndexAndTitle ==
  pc = "returned" =>
    \A n \in Nodes :
      cmds[n].key = "TRACK" =>
        /\ countAt(errorlist, n, "TRACK not have INDEX") > 0 <=> ~hasChild(n, "INDEX")
        /\ countAt(warnlist, n, "TRACK not have TITLE") > 0 <=> ~hasChild(n, "TITLE")
        /\ countAt(errorlist, n, "TRACK not have TITLE") = 0

---------------------------------------------------------------------------
(* C11: once the multiplicity pass has run, a node whose keyword is a      *)
(* singleton has 'multiple command error' at its own line exactly once if  *)
(* another node with the same keyword has the same parent, the first such  *)
(* node included, and not at all otherwise; the same keyword under another *)
(* parent does not count; nodes with a repeatable keyword never have the   *)
(* message, and before the pass no line has it.                            *)

Singletons == {"CATALOG", "CDTEXTFILE", "TITLE", "PERFORMER", "SONGWRITER",
               "FLAGS", "ISRC", "PREGAP", "POSTGAP"}
Repeatables == {"FILE", "TRACK", "INDEX", "REM"}

\* the nodes with the parent and the keyword of n, n included
sameKeySiblings(n) ==
  {m \in Nodes : cmds[m].parent = cmds[n].parent /\ cmds[m].key = cmds[n].key}

MulPassDone == pc \in {"checkCmdOrder", "tracklist", "findex", "tindex", "returned"}

C11_MultipleCommand ==
  entry = "cuecheck" =>
    /\ \A n \in Nodes :
         /\ cmds[n].key \in Singletons \cup Repeatables
         /\ countAt(errorlist, n, "multiple command error") =
              IF /\ MulPassDone
                 /\ cmds[n].key \in Singletons
                 /\ Cardinality(sameKeySiblings(n)) >= 2
              THEN 1 ELSE 0
         /\ countAt(warnlist, n, "multiple command error") = 0
    /\ \A k \in 1..Len(d) :
         k \notin Nodes => countAt(errorlist, k, "multiple command error") = 0

\* three CATALOG lines get one message each, the first included, and the
\* FILE line beside them none
C11_Witness ==
  /\ pc = "returned"
  /\ \E n \in Nodes :
       /\ cmds[n].key = "CATALOG"
       /\ Cardinality(sameKeySiblings(n)) = 3
       /\ \A m \in sameKeySiblings(n) :
            countAt(errorlist, m, "multiple command error") = 1
  /\ \E n \in Nodes :
       /\ cmds[n].key = "FILE"
       /\ countAt(errorlist, n, "multiple command error") = 0

---------------------------------------------------------------------------
(* C12: once the order pass has run, the number of 'command order error'   *)
(* messages at the line of a non-root node N with parent P is the number   *)
(* of siblings after N whose keyword N must precede (the set 'after' of    *)
(* N's constraint for P's keyword) plus the number of siblings before N    *)
(* whose keyword N must follow (the set 'before'); N is not counted as its *)
(* own sibling, other lines have no such message, and before the pass no   *)
(* line has it.                                                            *)

mustPrecede(n) == position(cmds[n].key, cmds[cmds[n].parent].key).after
mustFollow(n) == position(cmds[n].key, cmds[cmds[n].parent].key).before

siblingsAfter(n) == {m \in Nodes : cmds[m].parent = cmds[n].parent /\ m > n}
siblingsBefore(n) == {m \in Nodes : cmds[m].parent = cmds[n].parent /\ m < n}

orderErrors(n) ==
  Cardinality({m \in siblingsAfter(n) : cmds[m].key \in mustPrecede(n)})
  + Cardinality({m \in siblingsBefore(n) : cmds[m].key \in mustFollow(n)})

OrderPassDone == pc \in {"tracklist", "findex", "tindex", "returned"}

C12_CommandOrder ==
  entry = "cuecheck" =>
    /\ \A n \in Nodes :
         /\ countAt(errorlist, n, "command order error") =
              IF OrderPassDone THEN orderErrors(n) ELSE 0
         /\ countAt(warnlist, n, "command order error") = 0
    /\ \A k \in 1..Len(d) :
         k \notin Nodes => countAt(errorlist, k, "command order error") = 0

\* a CDTEXTFILE with a TITLE before it and a CATALOG after it: both checks
\* fire for the same node, while the FILE that follows them all has none
C12_Witness ==
  /\ pc = "returned"
  /\ \E n \in Nodes :
       /\ cmds[n].key = "CDTEXTFILE"
       /\ \E m \in siblingsAfter(n) : cmds[m].key = "CATALOG"
       /\ \E m \in siblingsBefore(n) : cmds[m].key = "TITLE"
       /\ countAt(errorlist, n, "command order error") = 2
  /\ \E n \in Nodes :
       /\ cmds[n].key = "FILE"
       /\ siblingsBefore(n) # {}
       /\ countAt(errorlist, n, "command order error") = 0

---------------------------------------------------------------------------
(* Vocabulary of the sequence checks *)

\* the words of a line, read off its text
wordsOf(line) == SelectSeq(line, LAMBDA x : x \notin {SP, TAB})

\* the value of a two-digit decimal word
Decimal(w) ==
  CASE w = "00" -> 0 [] w = "01" -> 1 [] w = "02" -> 2 [] w = "03" -> 3

\* the number / time of the node is set, not the sentinel -1
numberSet(n) == cmds[n].number # -1
timeSet(n) == cmds[n].time # -1

NodesWith(key) == {n \in Nodes : cmds[n].key = key}

\* a and b are neighbours in the set S of nodes, in source order
Adjacent(S, a, b) == a \in S /\ b \in S /\ a < b /\ ~\E c \in S : a < c /\ c < b
First(S, a) == a \in S /\ \A c \in S : a <= c
Last(S, a) == a \in S /\ \A c \in S : c <= a

\* how many messages of the set M are recorded at line n of the set s
countIn(s, n, M) ==
  LET ms == msgsAt(s, n)
  IN Cardinality({k \in DOMAIN ms : ms[k] \in M})

Numbers == -1..3

---------------------------------------------------------------------------
(* C13: once the track numbering check has run, over all TRACK nodes of    *)
(* the document in source order, whatever FILE they are under: the warning *)
(* 'first TRACK number not is 1' is at the first TRACK's line exactly if   *)
(* its number is not 1, never in the error set and at no other line; for   *)
(* adjacent TRACK nodes a, b the error 'TRACK number error, a -> b' is at   *)
(* a's line exactly if number(b) # number(a) + 1; the last TRACK has no     *)
(* such error.  The number of a node is the one written on its line, or    *)
(* the sentinel -1 if the line did not match its syntax rule.              *)

TrackPassDone == pc \in {"findex", "tindex", "returned"}

FirstTrackMessage == "first TRACK number not is 1"
TrackNumberError(x, y) ==
  "TRACK number error, " \o ToString(x) \o " -> " \o ToString(y)
TrackNumberErrors == {TrackNumberError(x, y) : x \in Numbers, y \in Numbers}

C13_TrackNumbering ==
  entry = "cuecheck" =>
    LET T == NodesWith("TRACK")
    IN /\ \A a \in T :
            /\ numberSet(a) => cmds[a].number = Decimal(wordsOf(d[a])[2])
            /\ countAt(errorlist, a, FirstTrackMessage) = 0
            /\ ~First(T, a) => countAt(warnlist, a, FirstTrackMessage) = 0
            /\ First(T, a) =>
                 countAt(warnlist, a, FirstTrackMessage) =
                   IF TrackPassDone /\ cmds[a].number # 1 THEN 1 ELSE 0
            /\ countIn(warnlist, a, TrackNumberErrors) = 0
            /\ Last(T, a) => countIn(errorlist, a, TrackNumberErrors) = 0
            /\ ~TrackPassDone => countIn(errorlist, a, TrackNumberErrors) = 0
       /\ \A a, b \in T :
            Adjacent(T, a, b) /\ TrackPassDone =>
              IF cmds[b].number # cmds[a].number + 1
              THEN /\ countIn(errorlist, a, TrackNumberErrors) = 1
                   /\ countAt(errorlist, a,
                              TrackNumberError(cmds[a].number, cmds[b].number)) = 1
              ELSE countIn(errorlist, a, TrackNumberErrors) = 0
       /\ \A k \in 1..Len(d) :
            k \notin T =>
              /\ countAt(warnlist, k, FirstTrackMessage) = 0
              /\ countIn(errorlist, k, TrackNumberErrors) = 0

\* TRACK 01 under one FILE followed by TRACK 03 under the next: the error
\* is on the TRACK 01 line, and there is no warning
C13_Witness ==
  /\ pc = "returned"
  /\ \E a, b \in NodesWith("TRACK") :
       /\ Adjacent(NodesWith("TRACK"), a, b)
       /\ First(NodesWith("TRACK"), a)
       /\ cmds[a].parent # cmds[b].parent
       /\ cmds[a].number = 1 /\ cmds[b].number = 3
       /\ countAt(errorlist, a, "TRACK number error, 1 -> 3") = 1
       /\ countIn(errorlist, b, TrackNumberErrors) = 0
  /\ warnlist = <<>>

---------------------------------------------------------------------------
(* C14: once the index timing check has run, for every FILE node and the   *)
(* INDEX nodes under its TRACKs in source order: 'first INDEX time not is  *)
(* 0 of FILE' is in the error set at the first INDEX's line exactly if its *)
(* time is not 0, and at no other line; for adjacent INDEX nodes a, b of   *)
(* the FILE, 'INDEX time error' (with the two times) is at a's line        *)
(* exactly if time(a) >= time(b), equal times included; the last INDEX of  *)
(* a FILE has no such error, so the check starts again with every FILE.    *)
(* The time of a node is minutes * 4500 + seconds * 75 + frames of the     *)
(* time written on its line, or the sentinel -1 if the line did not match  *)
(* its syntax rule.                                                        *)

\* the elapsed time, in frames, of the time words of the model
Elapsed(w) ==
  CASE w = "00:00:00" -> 0
    [] w = "00:02:00" -> 0 * 4500 + 2 * 75 + 0
    [] w = "01:02:03" -> 1 * 4500 + 2 * 75 + 3

\* the INDEX nodes in the subtree of the FILE node fl
IndexesOfFile(fl) ==
  {n \in NodesWith("INDEX") : cmds[cmds[n].parent].parent = fl}

IndexPassDone == pc \in {"tindex", "returned"}

FirstTimeMessage == "first INDEX time not is 0 of FILE"
IndexTimeError(x, y) ==
  "INDEX time error, " \o ToString(x) \o " >= " \o ToString(y)
Times == {-1, Elapsed("00:00:00"), Elapsed("00:02:00"), Elapsed("01:02:03")}
IndexTimeErrors == {IndexTimeError(x, y) : x \in Times, y \in Times}

C14_IndexTiming ==
  entry = "cuecheck" =>
    /\ \A n \in NodesWith("INDEX") :
         /\ timeSet(n) => cmds[n].time = Elapsed(wordsOf(d[n])[3])
         /\ \E fl \in NodesWith("FILE") : n \in IndexesOfFile(fl)
         /\ countAt(warnlist, n, FirstTimeMessage) = 0
         /\ countIn(warnlist, n, IndexTimeErrors) = 0
    /\ \A fl \in NodesWith("FILE") :
         LET X == IndexesOfFile(fl)
         IN /\ \A a \in X :
                 /\ ~First(X, a) => countAt(errorlist, a, FirstTimeMessage) = 0
                 /\ First(X, a) =>
                      countAt(errorlist, a, FirstTimeMessage) =
                        IF IndexPassDone /\ cmds[a].time # 0 THEN 1 ELSE 0
                 /\ Last(X, a) => countIn(errorlist, a, IndexTimeErrors) = 0
                 /\ ~IndexPassDone => countIn(errorlist, a, IndexTimeErrors) = 0
            /\ \A a, b \in X :
                 Adjacent(X, a, b) /\ IndexPassDone =>
                   IF cmds[a].time >= cmds[b].time
                   THEN /\ countIn(errorlist, a, IndexTimeErrors) = 1
                        /\ countAt(errorlist, a,
                                   IndexTimeError(cmds[a].time, cmds[b].time)) = 1
                   ELSE countIn(errorlist, a, IndexTimeErrors) = 0
    /\ \A k \in 1..Len(d) :
         k \notin NodesWith("INDEX") =>
           /\ countAt(errorlist, k, FirstTimeMessage) = 0
           /\ countIn(errorlist, k, IndexTimeErrors) = 0

\* two FILEs: the first INDEX of the first is at time 0 and has no error;
\* the first INDEX of the second is at 01:02:03 and has the first-time
\* error, the check having started again
C14_Witness ==
  /\ pc = "returned"
  /\ \E f1, f2 \in NodesWith("FILE") :
       /\ f1 < f2
       /\ \E a \in IndexesOfFile(f1), b \in IndexesOfFile(f2) :
            /\ Last(IndexesOfFile(f1), a) /\ First(IndexesOfFile(f2), b)
            /\ cmds[a].time = 0
            /\ cmds[b].time = 4653
            /\ msgsAt(errorlist, a) = <<>>
            /\ countAt(errorlist, b, FirstTimeMessage) = 1

---------------------------------------------------------------------------
(* C15: once the index numbering check has run, for every TRACK node and   *)
(* its INDEX children in source order: 'first INDEX number not is 0 or 1   *)
(* of TRACK' is in the error set at the first INDEX's line exactly if its  *)
(* number is neither 0 nor 1, and at no other line; for adjacent INDEX     *)
(* children a, b, 'INDEX number error, a -> b' is at a's line exactly if    *)
(* number(b) # number(a) + 1; the last INDEX of a TRACK has no such error, *)
(* so the numbering starts again with every TRACK.  The number of a node   *)
(* is the one written on its line, or the sentinel -1 if the line did not  *)
(* match its syntax rule.                                                  *)

IndexesOfTrack(tr) == {n \in NodesWith("INDEX") : cmds[n].parent = tr}

NumberPassDone == pc = "returned"

FirstNumberMessage == "first INDEX number not is 0 or 1 of TRACK"
IndexNumberError(x, y) ==
  "INDEX number error, " \o ToString(x) \o " -> " \o ToString(y)
IndexNumberErrors == {IndexNumberError(x, y) : x \in Numbers, y \in Numbers}

C15_IndexNumbering ==
  entry = "cuecheck" =>
    /\ \A n \in NodesWith("INDEX") :
         /\ numberSet(n) => cmds[n].number = Decimal(wordsOf(d[n])[2])
         /\ \E tr \in NodesWith("TRACK") : n \in IndexesOfTrack(tr)
         /\ countAt(warnlist, n, FirstNumberMessage) = 0
         /\ countIn(warnlist, n, IndexNumberErrors) = 0
    /\ \A tr \in NodesWith("TRACK") :
         LET X == IndexesOfTrack(tr)
         IN /\ \A a \in X :
                 /\ ~First(X, a) => countAt(errorlist, a, FirstNumberMessage) = 0
                 /\ First(X, a) =>
                      countAt(errorlist, a, FirstNumberMessage) =
                        IF NumberPassDone /\ cmds[a].number \notin {0, 1} THEN 1 ELSE 0
                 /\ Last(X, a) => countIn(errorlist, a, IndexNumberErrors) = 0
                 /\ ~NumberPassDone => countIn(errorlist, a, IndexNumberErrors) = 0
            /\ \A a, b \in X :
                 Adjacent(X, a, b) /\ NumberPassDone =>
                   IF cmds[b].number # cmds[a].number + 1
                   THEN /\ countIn(errorlist, a, IndexNumberErrors) = 1
                        /\ countAt(errorlist, a,
                                   IndexNumberError(cmds[a].number, cmds[b].number)) = 1
                   ELSE countIn(errorlist, a, IndexNumberErrors) = 0
    /\ \A k \in 1..Len(d) :
         k \notin NodesWith("INDEX") =>
           /\ countAt(errorlist, k, FirstNumberMessage) = 0
           /\ countIn(errorlist, k, IndexNumberErrors) = 0

\* INDEX 01 ends one TRACK and INDEX 00 begins the next: neither line has
\* a numbering error, the numbering having started again
C15_Witness ==
  /\ pc = "returned"
  /\ \E t1, t2 \in NodesWith("TRACK") :
       /\ t1 < t2
       /\ \E a \in IndexesOfTrack(t1), b \in IndexesOfTrack(t2) :
            /\ Last(IndexesOfTrack(t1), a) /\ First(IndexesOfTrack(t2), b)
            /\ cmds[a].number = 1
            /\ cmds[b].number = 0
            /\ msgsAt(errorlist, a) = <<>>
            /\ msgsAt(errorlist, b) = <<>>

---------------------------------------------------------------------------
(* C16 (as claimed): a TRACK or INDEX node whose number / time is still    *)
(* the sentinel -1 is an operand of no diagnostic of the sequence checks:  *)
(* as the first element it gets no first-element message, as the earlier   *)
(* node of a pair it gets no pair message, and as the later node of a pair *)
(* the earlier node gets none.                                             *)

SequenceMessages ==
  {FirstTrackMessage, FirstTimeMessage, FirstNumberMessage}
  \cup TrackNumberErrors \cup IndexTimeErrors \cup IndexNumberErrors

C16_UnsetOperandsSkipped ==
  entry = "cuecheck" =>
    /\ \A a \in NodesWith("TRACK") \cup NodesWith("INDEX") :
         ~numberSet(a) =>
           /\ countIn(errorlist, a, SequenceMessages) = 0
           /\ countIn(warnlist, a, SequenceMessages) = 0
    /\ \A a, b \in NodesWith("TRACK") :
         Adjacent(NodesWith("TRACK"), a, b) /\ ~numberSet(b) =>
           countIn(errorlist, a, TrackNumberErrors) = 0
    /\ \A fl \in NodesWith("FILE") :
         \A a, b \in IndexesOfFile(fl) :
           Adjacent(IndexesOfFile(fl), a, b) /\ ~timeSet(b) =>
             countIn(errorlist, a, IndexTimeErrors) = 0
    /\ \A tr \in NodesWith("TRACK") :
         \A a, b \in IndexesOfTrack(tr) :
           Adjacent(IndexesOfTrack(tr), a, b) /\ ~numberSet(b) =>
             countIn(errorlist, a, IndexNumberErrors) = 0

---------------------------------------------------------------------------
(* C17: a conforming document gives no diagnostic.  A document conforms if *)
(* every line is one of the well-formed lines below (non-blank, upper-case *)
(* known keyword at a permitted depth, matching its syntax rule, with      *)
(* seconds < 60, frames < 75 and a text of at most 80 characters), every   *)
(* FILE line names a file that is present, it has a FILE line (the minimal *)
(* instance is FILE / TRACK / TITLE / INDEX), every TRACK line comes after *)
(* a FILE line and every track-level line after a TRACK line of the same   *)
(* FILE, every FILE has a TRACK, every TRACK a TITLE and an INDEX,         *)
(* singletons occur once per scope, the ordering constraints hold, track   *)
(* numbers run 1, 2, 3, ..., index times start at 0 and strictly increase  *)
(* within a FILE, and index numbers start at 0 or 1 and are consecutive    *)
(* within a TRACK.  The run on such a document does not end by a raise;   *)
(* the loop always has a next line to classify until it is left; at the    *)
(* return the error and warning sets are empty and every line has its      *)
(* node: depth-0 lines under the root, TRACK under the last FILE and       *)
(* track-level lines under the last TRACK.                                 *)

WellFormedLines ==
  { Ln(0, <<"CATALOG", "0123456789012">>),
    Ln(0, <<"CDTEXTFILE", "a.cdt">>),
    Ln(0, <<"TITLE", "Song">>),
    Ln(0, <<"FILE", "a.bin", "BINARY">>),
    Ln(2, <<"TRACK", "01", "AUDIO">>),
    Ln(2, <<"TRACK", "02", "AUDIO">>),
    Ln(2, <<"TRACK", "03", "AUDIO">>),
    Ln(4, <<"TITLE", "Song">>),
    Ln(4, <<"INDEX", "01", "00:00:00">>),
    Ln(4, <<"INDEX", "02", "00:02:00">>),
    Ln(4, <<"INDEX", "00", "01:02:03">>),
    Ln(4, <<"POSTGAP", "00:02:00">>) }

LinesWith(key) == {k \in 1..Len(d) : firstWord(d[k]) = key}

\* the last line before k with `key`, 0 if none
lastBefore(k, key) ==
  IF \E j \in LinesWith(key) : j < k
  THEN CHOOSE j \in LinesWith(key) : j < k /\ \A h \in LinesWith(key) : h < k => h <= j
  ELSE 0

\* the line whose scope line k is written in, 0 for the document scope
scopeOf(k) ==
  CASE leadingSpaces(d[k]) = 0 -> 0
    [] leadingSpaces(d[k]) = 2 -> lastBefore(k, "FILE")
    [] leadingSpaces(d[k]) = 4 -> lastBefore(k, "TRACK")

scopeKey(k) == IF scopeOf(k) = 0 THEN None ELSE firstWord(d[scopeOf(k)])

\* the INDEX lines of FILE line fl / of TRACK line tr
indexLinesOfFile(fl) == {k \in LinesWith("INDEX") : lastBefore(k, "FILE") = fl}
indexLinesOfTrack(tr) == {k \in LinesWith("INDEX") : lastBefore(k, "TRACK") = tr}

lineNumber(k) == Decimal(wordsOf(d[k])[2])
lineTime(k) == Elapsed(wordsOf(d[k])[3])

Conforming ==
  LET key == [k \in 1..Len(d) |-> firstWord(d[k])]
      depth == [k \in 1..Len(d) |-> leadingSpaces(d[k])]
      scope == [k \in 1..Len(d) |-> scopeOf(k)]
      skey == [k \in 1..Len(d) |-> scopeKey(k)]
      files == LinesWith("FILE")
      tracks == LinesWith("TRACK")
      xfile == [fl \in files |-> indexLinesOfFile(fl)]
      xtrack == [tr \in tracks |-> indexLinesOfTrack(tr)]
  IN
  /\ \A k \in 1..Len(d) :
       /\ d[k] \in WellFormedLines
       /\ isupper(key[k])
       /\ key[k] \in Keys
       /\ depth[k] \in PermittedDepths(key[k])
  /\ \A k \in files : wordsOf(d[k])[2] \in media
  /\ files # {}
  /\ \A k \in 1..Len(d) :
       /\ depth[k] = 2 => lastBefore(k, "FILE") # 0
       /\ depth[k] = 4 =>
            /\ lastBefore(k, "TRACK") # 0
            /\ lastBefore(k, "TRACK") > lastBefore(k, "FILE")
  /\ \A fl \in files : \E k \in tracks : scope[k] = fl
  /\ \A tr \in tracks :
       /\ \E k \in 1..Len(d) : key[k] = "TITLE" /\ depth[k] = 4 /\ scope[k] = tr
       /\ \E k \in 1..Len(d) : key[k] = "INDEX" /\ scope[k] = tr
  /\ \A j, k \in 1..Len(d) :
       j < k /\ scope[j] = scope[k] =>
         /\ key[j] \in Singletons => key[k] # key[j]
         /\ key[k] \notin position(key[j], skey[j]).after
         /\ key[j] \notin position(key[k], skey[k]).before
  /\ \A k \in tracks :
       lineNumber(k) = Cardinality({j \in tracks : j <= k})
  /\ \A fl \in files :
       /\ \A k \in xfile[fl] : First(xfile[fl], k) => lineTime(k) = 0
       /\ \A j, k \in xfile[fl] :
            Adjacent(xfile[fl], j, k) => lineTime(j) < lineTime(k)
  /\ \A tr \in tracks :
       /\ \A k \in xtrack[tr] : First(xtrack[tr], k) => lineNumber(k) \in {0, 1}
       /\ \A j, k \in xtrack[tr] :
            Adjacent(xtrack[tr], j, k) => lineNumber(k) = lineNumber(j) + 1

C17_NoFalsePositives ==
  /\ pc = "build" => i < Len(d)
  /\ entry = "cuecheck" /\ pc \in {"returned", "raised"} /\ Conforming =>
       /\ pc = "returned"
       /\ raised = NoException
       /\ i = Len(d)
       /\ errorlist = <<>>
       /\ warnlist = <<>>
       /\ Nodes = 1..Len(d)
       /\ \A n \in Nodes :
            /\ cmds[n].key = firstWord(d[n])
            /\ cmds[n].parent = scopeOf(n)
            /\ cmds[cmds[n].parent].key = scopeKey(n)
            /\ cmds[n].key = "FILE" => cmds[n].parent = 0
            /\ cmds[n].key = "TRACK" => cmds[cmds[n].parent].key = "FILE"
            /\ cmds[n].indent = 4 => cmds[cmds[n].parent].key = "TRACK"

\* a returned conforming document with document-scope commands, two
\* TRACKs and an INDEX that restarts the numbering at 0
C17_Witness ==
  /\ pc = "returned"
  /\ Conforming
  /\ Cardinality(LinesWith("TRACK")) = 2
  /\ LinesWith("CATALOG") # {}
  /\ errorlist = <<>>
  /\ warnlist = <<>>

---------------------------------------------------------------------------
(* C18: in every state, while the tree is built and after every pass: the  *)
(* root has no parent and is in no children list; every other node is in   *)
(* exactly one children list, once, and that list is its parent's; every   *)
(* children list is in strictly ascending line-number order and a child's  *)
(* line number is greater than its parent's.  No step changes the parent,  *)
(* keyword, line number, line text or depth of an existing node; a step of *)
(* the builder only appends the new node to one children list; a step of   *)
(* a pass leaves every children list and the set of nodes as they are, and *)
(* only the syntax pass changes a node at all (its extracted fields).      *)

AllNodes == IF entry = "cuecheck" /\ cmds # <<>> THEN DOMAIN cmds ELSE {}

\* the places <<m, k>> where n stands in a children list
placesOf(n) ==
  {p \in AllNodes \X (1..Len(d)) :
     p[2] \in DOMAIN cmds[p[1]].children /\ cmds[p[1]].children[p[2]] = n}

C18_TreeShape ==
  /\ \A n \in AllNodes :
       /\ cmds[n].linenum = n
       /\ n = 0 => cmds[n].parent = Null /\ placesOf(n) = {}
       /\ n # 0 =>
            /\ cmds[n].parent \in AllNodes
            /\ cmds[n].parent < n
            /\ Cardinality(placesOf(n)) = 1
            /\ \A p \in placesOf(n) : p[1] = cmds[n].parent
       /\ \A j, k \in DOMAIN cmds[n].children :
            j < k => cmds[n].children[j] < cmds[n].children[k]
       /\ \A k \in DOMAIN cmds[n].children :
            /\ cmds[n].children[k] \in AllNodes
            /\ cmds[n].children[k] > n

\* what the builder fixes when it creates the node
made(c) == <<c.linenum, c.key, c.line, c.parent, c.indent>>

\* s is t, or t with one more element at its end
sameOrAppended(t, s) ==
  \/ s = t
  \/ Len(s) = Len(t) + 1 /\ SubSeq(s, 1, Len(t)) = t

C18_TreeStep ==
  (entry = "cuecheck" /\ cmds # <<>>) =>
    /\ DOMAIN cmds \subseteq DOMAIN cmds'
    /\ \A n \in DOMAIN cmds :
         /\ made(cmds'[n]) = made(cmds[n])
         /\ sameOrAppended(cmds[n].children, cmds'[n].children)
    /\ pc # "build" =>
         /\ DOMAIN cmds' = DOMAIN cmds
         /\ \A n \in DOMAIN cmds : cmds'[n].children = cmds[n].children
    /\ pc \notin {"build", "checkCmdSyntax"} => cmds' = cmds
    /\ pc = "build" =>
         /\ \A n \in DOMAIN cmds :
              <<cmds'[n].number, cmds'[n].time, cmds'[n].content,
                cmds'[n].file, cmds'[n].type>>
              = <<cmds[n].number, cmds[n].time, cmds[n].content,
                  cmds[n].file, cmds[n].type>>
         /\ Cardinality(DOMAIN cmds' \ DOMAIN cmds) <= 1

C18_TreeInvariant == []C18_TreeShape /\ [][C18_TreeStep]_vars

\* a returned tree root -> FILE -> TRACK -> INDEX next to a node under the
\* root, with the fields of the syntax pass set
C18_Witness ==
  /\ pc = "returned"
  /\ Len(cmds[0].children) = 2
  /\ \E fl, tr, x \in Nodes :
       /\ cmds[fl].key = "FILE" /\ cmds[fl].parent = 0 /\ cmds[fl].file = "a.bin"
       /\ cmds[tr].key = "TRACK" /\ cmds[tr].parent = fl /\ cmds[tr].number = 1
       /\ cmds[x].key = "INDEX" /\ cmds[x].parent = tr /\ cmds[x].time = 0

---------------------------------------------------------------------------
(* C19: in every state, every non-root node's parent has a keyword that is *)
(* one of the declared parents of the node's keyword: nodes of depth 0 are *)
(* under the root, a TRACK under a FILE, nodes of depth 4 under a TRACK;   *)
(* every child of a FILE or TRACK has a keyword of the parent's permitted  *)
(* children.  So 'have error child' is never recorded, in either set, and  *)
(* the order pass never fails to find the constraint of a node for its     *)
(* parent's keyword.                                                       *)

ErrorChildMessages == {"have error child " \o k : k \in Keys}

C19_ParentLegality ==
  /\ \A n \in Nodes :
       LET p == cmds[n].parent
       IN /\ cmds[p].key \in parentsOf(cmds[n].key)
          /\ cmds[n].indent = 0 => p = 0
          /\ cmds[n].key = "TRACK" => cmds[n].indent = 2 /\ cmds[p].key = "FILE"
          /\ cmds[n].indent = 2 => cmds[n].key = "TRACK"
          /\ cmds[n].indent = 4 => cmds[p].key = "TRACK"
          /\ cmds[p].key \in {"FILE", "TRACK"} =>
               cmds[n].key \in childrenOf(cmds[p].key)
          /\ ~positionUndefined(cmds, cmds[n])
  /\ \A k \in 1..Len(d) :
       /\ countIn(errorlist, k, ErrorChildMessages) = 0
       /\ countIn(warnlist, k, ErrorChildMessages) = 0
  /\ raised.type # "KeyError"

\* a returned tree with a TITLE under the root and a TITLE under a TRACK,
\* the two declared parents of TITLE
C19_Witness ==
  /\ pc = "returned"
  /\ \E m, n \in Nodes :
       /\ cmds[m].key = "TITLE" /\ cmds[m].parent = 0
       /\ cmds[n].key = "TITLE" /\ cmds[cmds[n].parent].key = "TRACK"
       /\ cmds[cmds[cmds[n].parent].parent].key = "FILE"

---------------------------------------------------------------------------
(* C20: a node has 'indent error' exactly if the leading spaces of its     *)
(* line differ from its depth, and 'command not is capital' exactly if the *)
(* keyword on its line is not in upper case.  Every such node also has     *)
(* 'command syntax error', once, as soon as the syntax pass has run, and   *)
(* its number, time, content, file and type are unset in every state, so   *)
(* also when the later passes run.                                         *)

SyntaxPassDone ==
  pc \in {"checkCmdChildren", "checkCmdMul", "checkCmdOrder", "tracklist",
          "findex", "tindex", "returned"}

misindented(n) == leadingSpaces(d[n]) # cmds[n].indent
notCapital(n) == ~isupper(firstWord(d[n]))

fieldsUnset(n) ==
  /\ cmds[n].number = -1 /\ cmds[n].time = -1
  /\ cmds[n].content = "" /\ cmds[n].file = "" /\ cmds[n].type = ""

C20_ClassifierCascade ==
  \A n \in Nodes :
    /\ countAt(errorlist, n, "indent error") = IF misindented(n) THEN 1 ELSE 0
    /\ countAt(errorlist, n, "command not is capital") = IF notCapital(n) THEN 1 ELSE 0
    /\ ~SyntaxPassDone => countAt(errorlist, n, "command syntax error") = 0
    /\ misindented(n) \/ notCapital(n) =>
         /\ SyntaxPassDone => countAt(errorlist, n, "command syntax error") = 1
         /\ fieldsUnset(n)

\* a returned tree with a TRACK whose keyword is in lower case and an INDEX
\* with 3 leading spaces, both with the syntax error and unset fields,
\* beside a TRACK whose fields are set
C20_Witness ==
  /\ pc = "returned"
  /\ \E m, n, k \in Nodes :
       /\ cmds[m].key = "TRACK" /\ notCapital(m) /\ ~misindented(m)
       /\ cmds[n].key = "INDEX" /\ misindented(n) /\ ~notCapital(n)
       /\ countAt(errorlist, m, "command syntax error") = 1
       /\ countAt(errorlist, n, "command syntax error") = 1
       /\ fieldsUnset(m) /\ fieldsUnset(n)
       /\ cmds[k].key = "TRACK" /\ cmds[k].number = 1
       /\ countAt(errorlist, k, "command syntax error") = 0

===========================================================================
